---- MODULE Spec2Model ----
(***************************************************************************)
(* A model of the parser-combinator core of compar (src/parser.ts, kept in *)
(* src/src/json/index.ts lines 153-389) and of the arithmetic grammar      *)
(* built on it (src/math.ts, kept in src/unnamed/part_000).                *)
(*                                                                         *)
(* A Parser is a value: a record whose tag names the closure the source    *)
(* builds and whose fields are what that closure captured.  Parse(p, s) is *)
(* p.parse(s).  A JavaScript string or array is a sequence; a character is *)
(* a TLA+ string of length one.  A message is the sequence of the pieces   *)
(* its template literal concatenates.                                      *)
(***************************************************************************)
EXTENDS Integers, Sequences, FiniteSets, TLC

----------------------------------------------------------------------------
(* Characters and their UTF-16 code units (what >= and <= compare).        *)

Chars == {"\t", "\n", " ", "(", ")", "*", "+", "-", ".", "/",
          "0", "1", "2", "3", "4", "5", "6", "7", "8", "9", "A", "a"}

CharCode ==
  [c \in Chars |->
     CASE c = "\t" -> 9  [] c = "\n" -> 10 [] c = " " -> 32
       [] c = "(" -> 40  [] c = ")" -> 41  [] c = "*" -> 42
       [] c = "+" -> 43  [] c = "-" -> 45  [] c = "." -> 46
       [] c = "/" -> 47  [] c = "0" -> 48  [] c = "1" -> 49
       [] c = "2" -> 50  [] c = "3" -> 51  [] c = "4" -> 52
       [] c = "5" -> 53  [] c = "6" -> 54  [] c = "7" -> 55
       [] c = "8" -> 56  [] c = "9" -> 57  [] c = "A" -> 65
       [] c = "a" -> 97]

----------------------------------------------------------------------------
(* Types: Position, State, ParserError, ParserResult.                      *)

Position(line, column) == [line |-> line, column |-> column]

State(position, text) == [position |-> position, text |-> text]

ParserError(position, message) ==
  [isError |-> TRUE, position |-> position, message |-> message]

ParserResult(value, state) ==
  [isError |-> FALSE, value |-> value, state |-> state]

(* An exception leaving parse: the source catches nothing, so a function   *)
(* handed to the library that throws ends the whole parse.                 *)
Thrown == [thrown |-> TRUE]

IsThrown(r) == "thrown" \in DOMAIN r

IsSuccess(r) == ~IsThrown(r) /\ ~r.isError

IsFailure(r) == ~IsThrown(r) /\ r.isError

makeInput(text) == State(Position(1, 1), text)

(* null, or the pair [first, rest state].                                  *)
getCharacterFromInput_skipsNewlineRule(input) ==
  IF Len(input.text) = 0 THEN [null |-> TRUE]
  ELSE [null |-> FALSE, first |-> Head(input.text),
        rest |-> State(Position(input.position.line,
                                input.position.column + 1),
                       Tail(input.text))]

getCharacterFromInput(input) ==
  LET text == input.text
      line == input.position.line
      column == input.position.column
  IN IF Len(text) = 0 THEN [null |-> TRUE]
     ELSE LET first == Head(text)
          IN IF first = "\n"
             THEN [null |-> FALSE, first |-> first,
                   rest |-> State(Position(line + 1, 1), Tail(text))]
             ELSE [null |-> FALSE, first |-> first,
                   rest |-> State(Position(line, column + 1), Tail(text))]

EMPTY_ERRROR == ParserError(Position(1, 1), <<"Empty parser">>)

----------------------------------------------------------------------------
(* Parser values.  Each constructor returns the Parser the source's method *)
(* of the same name returns.                                               *)

item == [tag |-> "item"]

(* new Parser(_ => { throw ... }): a caller's parser that throws when run. *)
thrower == [tag |-> "thrower"]

bind(this, f) == [tag |-> "bind", this |-> this, f |-> f]

parseIf(this, predicate, description) ==
  [tag |-> "parseIf", this |-> this, predicate |-> predicate,
   description |-> description]

pure(a) == [tag |-> "pure", a |-> a]

fmap(this, f) == [tag |-> "fmap", this |-> this, f |-> f]

apply(this, fp) == [tag |-> "apply", this |-> this, fp |-> fp]

empty == [tag |-> "empty"]

choice(p1, p2) == [tag |-> "choice", p1 |-> p1, p2 |-> p2]

lazyChoice(p1, p2) == [tag |-> "lazyChoice", p1 |-> p1, p2 |-> p2]

multipleChoice(ps) == [tag |-> "multipleChoice", ps |-> ps]

some(p) == bind(p, [fn |-> "someK1", p |-> p])

many_emptyFirst(p) == choice(pure(<<>>), some(p))

many(p) == choice(some(p), pure(<<>>))

sepBySome(p, sep) == bind(p, [fn |-> "sepBySomeK1", p |-> p, sep |-> sep])

sepBy(p, sep) == choice(sepBySome(p, sep), pure(<<>>))

(* rest of chainLeft: (a) => choice(op.bind(f => p.bind(b => ...)), pure(a)) *)
rest_rightNested(p, op, a) ==
  choice(bind(op, [fn |-> "restK1R", p |-> p, op |-> op, a |-> a]), pure(a))

rest(p, op, a) ==
  choice(bind(op, [fn |-> "restK1", p |-> p, op |-> op, a |-> a]), pure(a))

chainLeft(p, op) == bind(p, [fn |-> "rest", p |-> p, op |-> op])

----------------------------------------------------------------------------
(* Primitive parsers.                                                      *)

WHITE_SPACES == {" ", "\n", "\t"}

digit == parseIf(item, [fn |-> "isDigit"], "a digit")

lower == parseIf(item, [fn |-> "isLower"], "a lower case letter")

upper == parseIf(item, [fn |-> "isUpper"], "an upper case letter")

whitespace == parseIf(item, [fn |-> "isWhitespace"], "a whitespace")

letter == choice(lower, upper)

alphanum == choice(letter, digit)

whitespaces == many(whitespace)

token(p) == bind(p, [fn |-> "tokenK1"])

char(c) == parseIf(item, [fn |-> "isChar", c |-> c], c)

str(s) ==
  IF Len(s) = 0 THEN pure(<<>>)
  ELSE bind(char(Head(s)), [fn |-> "strK1", s |-> s])

symbol(s) == token(str(s))

----------------------------------------------------------------------------
(* The arithmetic grammar.                                                 *)

makeExpression(op) == [fn |-> "makeExpression", op |-> op]

operator(op) == fmap(symbol(<<op>>), [fn |-> "toMakeExpression", op |-> op])

plusMinus == choice(operator("+"), operator("-"))

mulDiv == choice(operator("*"), operator("/"))

intString == some(digit)

realString == bind(intString, [fn |-> "realK1"])

numeric ==
  fmap(bind(token(choice(realString, intString)), [fn |-> "numericK"]),
       [fn |-> "toNumberNode"])

lazyFactor == lazyChoice("numericThunk", "parenThunk")

lazyTerm == chainLeft(lazyFactor, mulDiv)

lazyExpr == chainLeft(lazyTerm, plusMinus)

(* Evaluating a Lazy<Parser>.                                              *)
Force(thunk) ==
  CASE thunk = "numericThunk" -> numeric
    [] thunk = "parenThunk" -> bind(symbol(<<"(">>), [fn |-> "parenK1"])

(* Number(s.join('')) of a sequence of characters: the decimal value of a  *)
(* digit string.  A literal with a fraction is kept as its two digit       *)
(* strings: the model has no non-integral numbers.                         *)
RECURSIVE Decimal(_, _)
Decimal(acc, ds) ==
  IF ds = <<>> THEN acc
  ELSE Decimal(acc * 10 + (CharCode[Head(ds)] - CharCode["0"]), Tail(ds))

Number(s) ==
  IF \E i \in 1..Len(s) : s[i] = "."
  THEN LET dot == CHOOSE i \in 1..Len(s) : s[i] = "."
       IN [whole |-> Decimal(0, SubSeq(s, 1, dot - 1)),
           fraction |-> SubSeq(s, dot + 1, Len(s))]
  ELSE Decimal(0, s)

Operation(op, a, b) ==
  CASE op = "+" -> a + b
    [] op = "-" -> a - b
    [] op = "*" -> a * b
    [] op = "/" -> IF b # 0 /\ a % b = 0 THEN a \div b
                   ELSE [dividend |-> a, divisor |-> b]

(* evaluate(expression): walks the tree, applying Operation per node.      *)
RECURSIVE evaluate(_)
evaluate(e) ==
  IF e.type = "number" THEN e.value
  ELSE Operation(e.operator, evaluate(e.left), evaluate(e.right))

----------------------------------------------------------------------------
(* Functions handed to parseIf, bind, fmap and apply, as closures: fn      *)
(* names the lambda, the other fields are what it captured.                *)

Between(lo, c, hi) == CharCode[lo] <= CharCode[c] /\ CharCode[c] <= CharCode[hi]

(* predicate(result.value)                                                 *)
Holds(predicate, c) ==
  CASE predicate.fn = "isDigit" -> Between("0", c, "9")
    [] predicate.fn = "isLower" -> CharCode["a"] <= CharCode[c] /\ CharCode[c] <= 122
    [] predicate.fn = "isUpper" -> CharCode["A"] <= CharCode[c] /\ CharCode[c] <= 90
    [] predicate.fn = "isWhitespace" -> c \in WHITE_SPACES
    [] predicate.fn = "isChar" -> c = predicate.c
    [] predicate.fn = "always" -> TRUE
    [] predicate.fn = "never" -> FALSE

(* Whether calling the function throws.                                    *)
Throws(f) == f.fn = "throws"

(* f(a)(b) of a curried binary function.                                   *)
Apply2(f, a, b) ==
  CASE f.fn = "makeExpression" ->
         [type |-> "binaryExpression", operator |-> f.op,
          left |-> a, right |-> b]

(* f(value) of a function given to fmap, or produced for apply.            *)
ApplyFn(f, value) ==
  CASE f.fn = "toMakeExpression" -> makeExpression(f.op)
    [] f.fn = "toNumberNode" -> [type |-> "number", value |-> value]
    [] f.fn = "toLeaf" -> [type |-> "number", value |-> Number(<<value>>)]
    [] f.fn = "const" -> f.v
    [] f.fn = "wrap" -> <<value>>
    [] f.fn = "pair" -> <<f.v, value>>

(* f(value) of a function given to bind: the parser it returns.  restK1R   *)
(* and restK2R belong to rest_rightNested, a variant of rest that nests to *)
(* the right.                                                              *)
ApplyK(f, value) ==
  CASE f.fn = "someK1" -> bind(many(f.p), [fn |-> "someK2", a |-> value])
    [] f.fn = "someK2" -> pure(<<f.a>> \o value)
    [] f.fn = "sepBySomeK1" ->
         bind(many(bind(f.sep, [fn |-> "sepThenP", p |-> f.p])),
              [fn |-> "sepBySomeK2", a |-> value])
    [] f.fn = "sepThenP" -> f.p
    [] f.fn = "sepBySomeK2" -> pure(<<f.a>> \o value)
    [] f.fn = "rest" -> rest(f.p, f.op, value)
    [] f.fn = "restK1" ->
         bind(f.p, [fn |-> "restK2", p |-> f.p, op |-> f.op, a |-> f.a,
                    f |-> value])
    [] f.fn = "restK2" -> rest(f.p, f.op, Apply2(f.f, f.a, value))
    [] f.fn = "restK1R" ->
         bind(chainLeft(f.p, f.op),
              [fn |-> "restK2R", a |-> f.a, f |-> value])
    [] f.fn = "restK2R" -> pure(Apply2(f.f, f.a, value))
    [] f.fn = "tokenK1" -> bind(whitespaces, [fn |-> "tokenK2", a |-> value])
    [] f.fn = "tokenK2" -> pure(f.a)
    [] f.fn = "strK1" ->
         bind(str(Tail(f.s)), [fn |-> "strK2", c |-> value])
    [] f.fn = "strK2" -> pure(<<f.c>> \o value)
    [] f.fn = "realK1" ->
         bind(char("."), [fn |-> "realK2", ds |-> value])
    [] f.fn = "realK2" -> bind(intString, [fn |-> "realK3", ds |-> f.ds])
    [] f.fn = "realK3" -> pure(f.ds \o <<".">> \o value)
    [] f.fn = "numericK" -> pure(Number(value))
    [] f.fn = "parenK1" -> bind(lazyExpr, [fn |-> "parenK2"])
    [] f.fn = "parenK2" ->
         bind(symbol(<<")">>), [fn |-> "parenK3", e |-> value])
    [] f.fn = "parenK3" -> pure(f.e)
    [] f.fn = "pure" -> pure(value)
    [] f.fn = "sameChar" -> char(value)
    [] f.fn = "thenP" -> f.p
    [] f.fn = "thenPair" -> fmap(f.p, [fn |-> "pair", v |-> value])

----------------------------------------------------------------------------
(* parse: the closure each Parser wraps.                                   *)

RECURSIVE Parse(_, _)

item_parse(input) ==
  LET result == getCharacterFromInput(input)
  IN IF result.null
     THEN ParserError(input.position, <<"Unexpected end of input">>)
     ELSE ParserResult(result.first, result.rest)

bind_parse_failsAtStart(this, f, input) ==
  LET result == Parse(this, input)
  IN IF IsThrown(result) THEN result
     ELSE IF result.isError
     THEN ParserError(input.position, result.message)
     ELSE IF Throws(f) THEN Thrown
     ELSE Parse(ApplyK(f, result.value), result.state)

bind_parse(this, f, input) ==
  LET result == Parse(this, input)
  IN IF IsThrown(result) THEN result
     ELSE IF result.isError THEN result
     ELSE IF Throws(f) THEN Thrown
     ELSE Parse(ApplyK(f, result.value), result.state)

parseIf_parse_failsAfterValue(this, predicate, description, input) ==
  LET result == Parse(this, input)
  IN IF IsThrown(result) THEN result
     ELSE IF result.isError
     THEN ParserError(result.position,
            <<"Expected ", description, ", but reach the end of input">>)
     ELSE IF Holds(predicate, result.value) THEN result
     ELSE ParserError(result.state.position,
            <<"Expected ", description, ", but got ", result.value>>)

parseIf_parse_keepsMessage(this, predicate, description, input) ==
  LET result == Parse(this, input)
  IN IF IsThrown(result) THEN result
     ELSE IF result.isError THEN result
     ELSE IF Holds(predicate, result.value) THEN result
     ELSE ParserError(input.position,
            <<"Expected ", description, ", but got ", result.value>>)

parseIf_parse(this, predicate, description, input) ==
  LET result == Parse(this, input)
  IN IF IsThrown(result) THEN result
     ELSE IF result.isError
     THEN ParserError(result.position,
            <<"Expected ", description, ", but reach the end of input">>)
     ELSE IF Holds(predicate, result.value) THEN result
     ELSE ParserError(input.position,
            <<"Expected ", description, ", but got ", result.value>>)

pure_parse(a, input) == ParserResult(a, input)

fmap_parse(this, f, input) ==
  LET result == Parse(this, input)
  IN IF IsThrown(result) THEN result
     ELSE IF result.isError THEN result
     ELSE IF Throws(f) THEN Thrown
     ELSE ParserResult(ApplyFn(f, result.value), result.state)

apply_parse_runsThisFirst(this, fp, input) ==
  LET first == Parse(this, input)
  IN IF IsThrown(first) THEN first
     ELSE IF first.isError THEN first
     ELSE LET result == Parse(fp, first.state)
          IN IF IsThrown(result) THEN result
             ELSE IF result.isError THEN result
             ELSE IF Throws(result.value) THEN Thrown
             ELSE ParserResult(ApplyFn(result.value, first.value),
                               result.state)

apply_parse(this, fp, input) ==
  LET result == Parse(fp, input)
  IN IF IsThrown(result) THEN result
     ELSE IF result.isError THEN result
     ELSE Parse(fmap(this, result.value), result.state)

empty_parse(input) == ParserError(input.position, <<"Empty parser">>)

choice_parse_keepsFirstError(p1, p2, input) ==
  LET result == Parse(p1, input)
  IN IF IsThrown(result) THEN result
     ELSE IF result.isError
     THEN LET second == Parse(p2, input)
          IN IF IsFailure(second) THEN result ELSE second
     ELSE result

choice_parse(p1, p2, input) ==
  LET result == Parse(p1, input)
  IN IF IsThrown(result) THEN result
     ELSE IF result.isError THEN Parse(p2, input)
     ELSE result

lazyChoice_parse(p1, p2, input) ==
  LET result == Parse(Force(p1), input)
  IN IF IsThrown(result) THEN result
     ELSE IF result.isError THEN Parse(Force(p2), input)
     ELSE result

(* for (const p of ps) { result = p.parse(input); if (!result.isError) break } *)
RECURSIVE multipleChoice_loop(_, _, _)
multipleChoice_loop(ps, input, result) ==
  IF ps = <<>> THEN result
  ELSE LET r == Parse(Head(ps), input)
       IN IF IsThrown(r) THEN r
          ELSE IF ~r.isError THEN r
          ELSE multipleChoice_loop(Tail(ps), input, r)

multipleChoice_parse(ps, input) ==
  multipleChoice_loop(ps, input, EMPTY_ERRROR)

Parse(p, input) ==
  CASE p.tag = "item" -> item_parse(input)
    [] p.tag = "thrower" -> Thrown
    [] p.tag = "bind" -> bind_parse(p.this, p.f, input)
    [] p.tag = "parseIf" ->
         parseIf_parse(p.this, p.predicate, p.description, input)
    [] p.tag = "pure" -> pure_parse(p.a, input)
    [] p.tag = "fmap" -> fmap_parse(p.this, p.f, input)
    [] p.tag = "apply" -> apply_parse(p.this, p.fp, input)
    [] p.tag = "empty" -> empty_parse(input)
    [] p.tag = "choice" -> choice_parse(p.p1, p.p2, input)
    [] p.tag = "lazyChoice" -> lazyChoice_parse(p.p1, p.p2, input)
    [] p.tag = "multipleChoice" -> multipleChoice_parse(p.ps, input)

----------------------------------------------------------------------------
(* Inputs.                                                                 *)

MaxLen == 3

MaxPairs == 2

MaxAlts == 3

Alphabet == {"1", "a", "\n"}

SeqsUpTo(S, n) == UNION {[1..k -> S] : k \in 0..n}

BoundedTexts == SeqsUpTo(Alphabet, MaxLen)

(* operand (op operand)* followed by something that ends the chain.        *)
ChainPairs ==
  {<<o, d>> : o \in {"+", "-"}, d \in {"1", "2", "3"}}

RECURSIVE Flatten(_)
Flatten(ss) == IF ss = <<>> THEN <<>> ELSE Head(ss) \o Flatten(Tail(ss))

ChainTexts ==
  {<<d>> \o Flatten(ps) \o tail :
     d \in {"1", "2"},
     ps \in SeqsUpTo(ChainPairs, MaxPairs),
     tail \in {<<>>, <<"-">>, <<"+", "a">>}}

Sample123a == <<"1", "2", "3", "a">>

Sample4m2p3 == <<"4", " ", "-", " ", "2", " ", "+", " ", "3">>

MathTexts ==
  {Sample4m2p3,
   <<"1", "2">>,
   <<"a">>,
   <<"1", " ", "+", " ", "2">>,
   <<"1", " ", "+", " ", "2", " ", "*", " ", "3">>,
   <<"(", "1", " ", "+", " ", "2", ")", " ", "*", " ", "3">>,
   <<"8", "-", "(", "4", "-", "2", ")", "-", "1", " ", "+">>}

Texts == BoundedTexts \cup ChainTexts \cup MathTexts \cup {Sample123a}

OverAlphabet(text) == \A i \in 1..Len(text) : text[i] \in Alphabet

(* Parsers and functions the operations are applied to, as sequences.      *)

aThenDigit == bind(char("a"), [fn |-> "thenP", p |-> digit])

ChoiceParsers ==
  <<digit, lower, item, str(<<"a", "1">>), aThenDigit, empty, pure("x"),
    thrower>>

CharParsers == <<item, digit, lower, char("a"), aThenDigit, empty>>

BindFunctions ==
  <<[fn |-> "pure"], [fn |-> "sameChar"], [fn |-> "thenP", p |-> item],
    [fn |-> "thenPair", p |-> digit], [fn |-> "thenP", p |-> empty],
    [fn |-> "throws"]>>

FmapFunctions ==
  <<[fn |-> "wrap"], [fn |-> "const", v |-> "x"], [fn |-> "throws"]>>

FunctionParsers ==
  <<pure([fn |-> "wrap"]),
    fmap(item, [fn |-> "const", v |-> [fn |-> "wrap"]]),
    fmap(aThenDigit, [fn |-> "const", v |-> [fn |-> "pair", v |-> "x"]]),
    empty,
    pure([fn |-> "throws"])>>

ApplyParsers == <<item, digit, aThenDigit, thrower>>

RepeatedParsers ==
  <<digit, item, lower, char("a"), str(<<"a", "1">>), aThenDigit>>

Literals ==
  SeqsUpTo(Alphabet, 2) \cup {<<"a", "\n", "1">>, <<"a", "\n", "a">>,
                              <<"1", "a", "\n">>}

Predicates ==
  <<[fn |-> "isDigit"], [fn |-> "isChar", c |-> "a"], [fn |-> "always"],
    [fn |-> "never"]>>

Descriptions == <<"a digit", "a">>

Alternatives == <<digit, lower, str(<<"a", "1">>), thrower>>

leaf == fmap(digit, [fn |-> "toLeaf"])

addSub ==
  choice(fmap(char("+"), [fn |-> "toMakeExpression", op |-> "+"]),
         fmap(char("-"), [fn |-> "toMakeExpression", op |-> "-"]))

----------------------------------------------------------------------------
(* The state: a parse state reached from makeInput by item steps, the text *)
(* consumed on the way, and the last operation applied with its results.   *)

VARIABLES st, consumed, obs, root, mode, ctrl, stack

vars == <<st, consumed, obs, root, mode, ctrl, stack>>

(* The variables of a parse taken step by step (see TermSpec below).       *)
mvars == <<root, mode, ctrl, stack>>

Origin == consumed \o st.text

(* Every operation is applied to a state that makeInput and item produced. *)
Fresh == obs.op \in {"makeInput", "item"}

Init ==
  /\ \E text \in Texts : st = makeInput(text)
  /\ consumed = <<>>
  /\ obs = [op |-> "makeInput"]
  /\ root = [name |-> "none"]
  /\ mode = "idle"
  /\ ctrl = [idle |-> TRUE]
  /\ stack = <<>>

ItemStep ==
  LET result == Parse(item, st)
  IN /\ Fresh
     /\ obs' = [op |-> "item", input |-> st, result |-> result]
     /\ IF result.isError
        THEN UNCHANGED <<st, consumed>>
        ELSE /\ st' = result.state
             /\ consumed' = Append(consumed, result.value)
     /\ UNCHANGED mvars

RunChoice ==
  /\ Fresh
  /\ OverAlphabet(Origin)
  /\ \E i, j \in 1..Len(ChoiceParsers) :
       LET p1 == ChoiceParsers[i]
           p2 == ChoiceParsers[j]
       IN obs' = [op |-> "choice", input |-> st, p1 |-> p1, p2 |-> p2,
                  r1 |-> Parse(p1, st), r2 |-> Parse(p2, st),
                  result |-> Parse(choice(p1, p2), st)]
  /\ UNCHANGED <<st, consumed, mvars>>

RunBind ==
  /\ Fresh
  /\ OverAlphabet(Origin)
  /\ \E i \in 1..Len(CharParsers), j \in 1..Len(BindFunctions) :
       LET p == CharParsers[i]
           f == BindFunctions[j]
       IN obs' = [op |-> "bind", input |-> st, p |-> p, f |-> f,
                  rp |-> Parse(p, st),
                  result |-> Parse(bind(p, f), st)]
  /\ UNCHANGED <<st, consumed, mvars>>

RunFmap ==
  /\ Fresh
  /\ OverAlphabet(Origin)
  /\ \E i \in 1..Len(CharParsers), j \in 1..Len(FmapFunctions) :
       LET p == CharParsers[i]
           f == FmapFunctions[j]
       IN obs' = [op |-> "fmap", input |-> st, p |-> p, f |-> f,
                  rp |-> Parse(p, st),
                  result |-> Parse(fmap(p, f), st)]
  /\ UNCHANGED <<st, consumed, mvars>>

RunApply ==
  /\ Fresh
  /\ OverAlphabet(Origin)
  /\ \E i \in 1..Len(ApplyParsers), j \in 1..Len(FunctionParsers) :
       LET p == ApplyParsers[i]
           fp == FunctionParsers[j]
           rfp == Parse(fp, st)
       IN obs' = [op |-> "apply", input |-> st, p |-> p, fp |-> fp,
                  rfp |-> rfp,
                  rp |-> IF IsSuccess(rfp) THEN Parse(p, rfp.state)
                         ELSE [notRun |-> TRUE],
                  result |-> Parse(apply(p, fp), st)]
  /\ UNCHANGED <<st, consumed, mvars>>

(* pure(a).bind(f) against f(a).                                           *)
RunLeftIdentity ==
  /\ Fresh
  /\ OverAlphabet(Origin)
  /\ \E a \in Alphabet, j \in 1..Len(BindFunctions) :
       LET f == BindFunctions[j]
       IN obs' = [op |-> "leftIdentity", input |-> st, a |-> a, f |-> f,
                  lhs |-> Parse(bind(pure(a), f), st),
                  rhs |-> IF Throws(f) THEN Thrown
                          ELSE Parse(ApplyK(f, a), st)]
  /\ UNCHANGED <<st, consumed, mvars>>

(* p.bind(Parser.pure) against p.                                          *)
RunRightIdentity ==
  /\ Fresh
  /\ OverAlphabet(Origin)
  /\ \E i \in 1..Len(ChoiceParsers) :
       LET p == ChoiceParsers[i]
       IN obs' = [op |-> "rightIdentity", input |-> st, p |-> p,
                  lhs |-> Parse(bind(p, [fn |-> "pure"]), st),
                  rhs |-> Parse(p, st)]
  /\ UNCHANGED <<st, consumed, mvars>>

RunMany ==
  /\ Fresh
  /\ (OverAlphabet(Origin) \/ Origin = Sample123a)
  /\ \E i \in 1..Len(RepeatedParsers) :
       LET p == RepeatedParsers[i]
       IN obs' = [op |-> "many", input |-> st, p |-> p,
                  first |-> Parse(p, st),
                  result |-> Parse(many(p), st),
                  someResult |-> Parse(some(p), st)]
  /\ UNCHANGED <<st, consumed, mvars>>

RunChainLeft ==
  /\ Fresh
  /\ Origin \in ChainTexts
  /\ obs' = [op |-> "chainLeft", input |-> st,
             result |-> Parse(chainLeft(leaf, addSub), st)]
  /\ UNCHANGED <<st, consumed, mvars>>

RunExpr ==
  /\ Fresh
  /\ Origin \in MathTexts
  /\ obs' = [op |-> "expr", input |-> st, result |-> Parse(lazyExpr, st)]
  /\ UNCHANGED <<st, consumed, mvars>>

RunStr ==
  /\ Fresh
  /\ OverAlphabet(Origin)
  /\ \E s \in Literals :
       obs' = [op |-> "str", input |-> st, s |-> s,
               result |-> Parse(str(s), st)]
  /\ UNCHANGED <<st, consumed, mvars>>

RunParseIf ==
  /\ Fresh
  /\ OverAlphabet(Origin)
  /\ \E i \in 1..Len(CharParsers), j \in 1..Len(Predicates),
        k \in 1..Len(Descriptions) :
       LET p == CharParsers[i]
           predicate == Predicates[j]
           description == Descriptions[k]
       IN obs' = [op |-> "parseIf", input |-> st, p |-> p,
                  predicate |-> predicate, description |-> description,
                  rp |-> Parse(p, st),
                  result |-> Parse(parseIf(p, predicate, description), st)]
  /\ UNCHANGED <<st, consumed, mvars>>

RECURSIVE ChoiceFold(_)
ChoiceFold(ps) ==
  IF Len(ps) = 1 THEN ps[1] ELSE choice(Head(ps), ChoiceFold(Tail(ps)))

RunMultipleChoice ==
  /\ Fresh
  /\ OverAlphabet(Origin)
  /\ \E n \in 0..MaxAlts :
       \E ix \in [1..n -> 1..Len(Alternatives)] :
         LET ps == [k \in 1..n |-> Alternatives[ix[k]]]
         IN obs' = [op |-> "multipleChoice", input |-> st, ps |-> ps,
                    result |-> Parse(multipleChoice(ps), st),
                    folded |-> IF n = 0 THEN Parse(empty, st)
                               ELSE Parse(ChoiceFold(ps), st)]
  /\ UNCHANGED <<st, consumed, mvars>>

Next ==
  \/ ItemStep
  \/ RunChoice
  \/ RunBind
  \/ RunFmap
  \/ RunApply
  \/ RunLeftIdentity
  \/ RunRightIdentity
  \/ RunMany
  \/ RunChainLeft
  \/ RunExpr
  \/ RunStr
  \/ RunParseIf
  \/ RunMultipleChoice

Spec == Init /\ [][Next]_vars

----------------------------------------------------------------------------
(* What the properties are stated with, computed from the text alone.      *)

Newlines(chars) == Cardinality({i \in 1..Len(chars) : chars[i] = "\n"})

LastNewline(chars) ==
  IF Newlines(chars) = 0 THEN 0
  ELSE CHOOSE i \in 1..Len(chars) :
         /\ chars[i] = "\n"
         /\ \A j \in (i + 1)..Len(chars) : chars[j] # "\n"

(* The position reached from pos once chars are consumed.                  *)
Advance(pos, chars) ==
  IF Newlines(chars) = 0
  THEN Position(pos.line, pos.column + Len(chars))
  ELSE Position(pos.line + Newlines(chars),
                1 + Len(chars) - LastNewline(chars))

Drop(text, n) == SubSeq(text, n + 1, Len(text))

(* How many leading characters of text agree with the literal s.           *)
CommonPrefix(s, text) ==
  CHOOSE k \in 0..Len(s) :
    /\ k <= Len(text)
    /\ SubSeq(s, 1, k) = SubSeq(text, 1, k)
    /\ (k < Len(s) /\ k < Len(text)) => s[k + 1] # text[k + 1]

(* The successive successes of p from state s, until p fails.              *)
RECURSIVE LongestRun(_, _)
LongestRun(p, s) ==
  LET r == Parse(p, s)
  IN IF IsSuccess(r) /\ Len(r.state.text) < Len(s.text)
     THEN LET more == LongestRun(p, r.state)
          IN [values |-> <<r.value>> \o more.values, state |-> more.state]
     ELSE [values |-> <<>>, state |-> s]

IsDigitChar(c) == c \in {"0", "1", "2", "3", "4", "5", "6", "7", "8", "9"}

DigitValue(c) ==
  CASE c = "0" -> 0 [] c = "1" -> 1 [] c = "2" -> 2 [] c = "3" -> 3
    [] c = "4" -> 4 [] c = "5" -> 5 [] c = "6" -> 6 [] c = "7" -> 7
    [] c = "8" -> 8 [] c = "9" -> 9

Num(n) == [type |-> "number", value |-> n]

Bin(op, l, r) ==
  [type |-> "binaryExpression", operator |-> op, left |-> l, right |-> r]

(* (op digit)* read off the text, folded to the left onto acc.             *)
RECURSIVE FoldLeft(_, _)
FoldLeft(acc, text) ==
  IF Len(text) >= 2 /\ text[1] \in {"+", "-"} /\ IsDigitChar(text[2])
  THEN FoldLeft(Bin(text[1], acc, Num(DigitValue(text[2]))), Drop(text, 2))
  ELSE [value |-> acc, text |-> text]

IsDigitParser(p) ==
  p.tag = "parseIf" /\ p.this.tag = "item" /\ p.predicate.fn = "isDigit"

----------------------------------------------------------------------------
(* C1: choice(p1, p2).parse(s) is p1's Success when p1 succeeds, p2 not    *)
(* being run (a p2 that throws leaves no trace); otherwise it is exactly   *)
(* p2.parse(s) on the original state s, so that when both fail the         *)
(* Failure's position and message are p2's.                                *)
C1_Choice ==
  obs.op = "choice" =>
    /\ IsSuccess(obs.r1) => obs.result = obs.r1
    /\ IsFailure(obs.r1) => obs.result = obs.r2
    /\ (IsFailure(obs.r1) /\ IsFailure(obs.r2)) =>
         /\ obs.result.position = obs.r2.position
         /\ obs.result.message = obs.r2.message

(* p1 consumed a character before failing; p2 failed elsewhere, and its    *)
(* Failure is the one returned.                                            *)
C1_Witness ==
  /\ obs.op = "choice"
  /\ IsFailure(obs.r1) /\ IsFailure(obs.r2)
  /\ obs.r1.position # obs.input.position
  /\ obs.r1.position # obs.r2.position
  /\ obs.r1.message # obs.r2.message
  /\ obs.result = obs.r2

(* C2: item on empty text fails with 'Unexpected end of input' at the      *)
(* state's position; on non-empty text it succeeds with the first          *)
(* character, the text minus that character, and line+1, column 1 exactly  *)
(* when the character is a newline, else the same line and column+1.  From *)
(* makeInput, after any item steps, line >= 1, column >= 1 and the         *)
(* position is the one computed from the consumed prefix.                  *)
C2_ItemPosition ==
  /\ st.position.line >= 1
  /\ st.position.column >= 1
  /\ st.position = Advance(Position(1, 1), consumed)
  /\ obs.op = "item" =>
       LET text == obs.input.text
           pos == obs.input.position
       IN IF text = <<>>
          THEN obs.result = ParserError(pos, <<"Unexpected end of input">>)
          ELSE obs.result =
                 ParserResult(Head(text),
                   State(IF Head(text) = "\n"
                         THEN Position(pos.line + 1, 1)
                         ELSE Position(pos.line, pos.column + 1),
                         Tail(text)))

(* A newline was just consumed after another character.                    *)
C2_Witness ==
  /\ obs.op = "item"
  /\ IsSuccess(obs.result)
  /\ obs.result.value = "\n"
  /\ obs.input.position.column > 1
  /\ st.position = Position(2, 1)

(* C3: a Failure of p comes out of p.bind(f) and p.fmap(f) unchanged, f    *)
(* not being called (an f that throws leaves no trace); p.apply(pf)        *)
(* returns pf's Failure unchanged without running p, and p's Failure       *)
(* unchanged when pf succeeded and p then failed on pf's resulting state.  *)
C3_FailurePropagation ==
  /\ (obs.op \in {"bind", "fmap"} /\ IsFailure(obs.rp)) =>
       obs.result = obs.rp
  /\ (obs.op = "apply" /\ IsFailure(obs.rfp)) => obs.result = obs.rfp
  /\ (obs.op = "apply" /\ IsSuccess(obs.rfp) /\ IsFailure(obs.rp)) =>
       obs.result = obs.rp

(* pf consumed input and p, run where pf stopped, failed further on.       *)
C3_Witness ==
  /\ obs.op = "apply"
  /\ IsSuccess(obs.rfp)
  /\ obs.rfp.state.position # obs.input.position
  /\ IsFailure(obs.rp)
  /\ obs.rp.position # obs.rfp.state.position
  /\ obs.result = obs.rp

(* C4: pure(a).bind(f).parse(s) = f(a).parse(s) and                        *)
(* p.bind(Parser.pure).parse(s) = p.parse(s), as Success and as Failure.   *)
C4_MonadLaws ==
  obs.op \in {"leftIdentity", "rightIdentity"} => obs.lhs = obs.rhs

(* The right identity on a p that fails after consuming a character.       *)
C4_Witness ==
  /\ obs.op = "rightIdentity"
  /\ IsFailure(obs.rhs)
  /\ obs.rhs.position # obs.input.position
  /\ obs.lhs = obs.rhs

(* C5: many(p) never fails: it succeeds with the values of the longest run *)
(* of successes of p from s, in the state where p first failed (the empty  *)
(* list and s itself when p fails at once); many(digit) on "123a" gives    *)
(* ['1','2','3'], leaving "a" at column 4; some(p) differs only in failing *)
(* with p's Failure when the first application fails.                      *)
C5_Many ==
  obs.op = "many" =>
    LET run == LongestRun(obs.p, obs.input)
    IN /\ IsSuccess(obs.result)
       /\ obs.result = ParserResult(run.values, run.state)
       /\ IsFailure(Parse(obs.p, obs.result.state))
       /\ IsFailure(obs.first) =>
            /\ obs.result = ParserResult(<<>>, obs.input)
            /\ obs.someResult = obs.first
       /\ IsSuccess(obs.first) => obs.someResult = obs.result
       /\ (IsDigitParser(obs.p) /\ obs.input = makeInput(Sample123a)) =>
            obs.result =
              ParserResult(<<"1", "2", "3">>,
                           State(Position(1, 4), <<"a">>))

C5_Witness ==
  /\ obs.op = "many"
  /\ IsDigitParser(obs.p)
  /\ obs.input = makeInput(Sample123a)
  /\ IsSuccess(obs.result)
  /\ Len(obs.result.value) = 3
  /\ obs.result.state.text = <<"a">>

(* C6: chainLeft(p, op) parses one p and as many (op, p) pairs as succeed, *)
(* folding to the left in encounter order; a trailing op with no p after   *)
(* it is left unconsumed.  The arithmetic grammar's tree for "4 - 2 + 3"   *)
(* is ((4 - 2) + 3), which evaluates to 5.                                 *)
C6_ChainLeft ==
  /\ obs.op = "chainLeft" =>
       LET text == obs.input.text
           pos == obs.input.position
       IN IF text # <<>> /\ IsDigitChar(Head(text))
          THEN LET fold == FoldLeft(Num(DigitValue(Head(text))), Tail(text))
               IN obs.result =
                    ParserResult(fold.value,
                      State(Position(pos.line,
                              pos.column + Len(text) - Len(fold.text)),
                            fold.text))
          ELSE IsFailure(obs.result)
  /\ (obs.op = "expr" /\ obs.input = makeInput(Sample4m2p3)) =>
       /\ obs.result =
            ParserResult(Bin("+", Bin("-", Num(4), Num(2)), Num(3)),
                         State(Position(1, 10), <<>>))
       /\ evaluate(obs.result.value) = 5

(* Two pairs were folded and a trailing operator was left in the text.     *)
C6_Witness ==
  /\ obs.op = "chainLeft"
  /\ IsSuccess(obs.result)
  /\ obs.result.value.type = "binaryExpression"
  /\ obs.result.value.left.type = "binaryExpression"
  /\ obs.result.value.left.operator = "-"
  /\ obs.result.state.text = <<"-">>

(* C7: str(s) succeeds with value s, consuming |s| characters, iff the     *)
(* text starts with s (str("") returns the state unchanged); otherwise it  *)
(* fails at the position of the first character that differs from s, or    *)
(* of the end of input when the text is a proper prefix of s.              *)
C7_Str ==
  obs.op = "str" =>
    LET text == obs.input.text
        pos == obs.input.position
        k == CommonPrefix(obs.s, text)
    IN /\ IsSuccess(obs.result) <=> k = Len(obs.s)
       /\ IsSuccess(obs.result) =>
            obs.result =
              ParserResult(obs.s, State(Advance(pos, obs.s), Drop(text, k)))
       /\ IsFailure(obs.result) =>
            obs.result.position = Advance(pos, SubSeq(text, 1, k))
       /\ obs.s = <<>> => obs.result = ParserResult(<<>>, obs.input)

(* The literal spans a newline and the mismatch is on its second line.     *)
C7_Witness ==
  /\ obs.op = "str"
  /\ obs.input.position.line = 1
  /\ IsFailure(obs.result)
  /\ obs.result.position.line = 2
  /\ obs.result.position.column = 1
  /\ Len(obs.input.text) >= 3

(* C9: p.parseIf(predicate, d) returns p's Success unchanged when the      *)
(* predicate holds; when p succeeds and the predicate is false, a Failure  *)
(* at s.position with 'Expected d, but got v'; when p fails, a Failure at  *)
(* p's failure position saying d was expected but the input ended.         *)
C9_ParseIf ==
  obs.op = "parseIf" =>
    /\ (IsSuccess(obs.rp) /\ Holds(obs.predicate, obs.rp.value)) =>
         obs.result = obs.rp
    /\ (IsSuccess(obs.rp) /\ ~Holds(obs.predicate, obs.rp.value)) =>
         obs.result =
           ParserError(obs.input.position,
             <<"Expected ", obs.description, ", but got ", obs.rp.value>>)
    /\ IsFailure(obs.rp) =>
         obs.result =
           ParserError(obs.rp.position,
             <<"Expected ", obs.description,
               ", but reach the end of input">>)

(* p consumed two characters and the predicate rejected its value.         *)
C9_Witness ==
  /\ obs.op = "parseIf"
  /\ IsSuccess(obs.rp)
  /\ Len(obs.rp.state.text) + 2 = Len(obs.input.text)
  /\ ~Holds(obs.predicate, obs.rp.value)
  /\ obs.result.position = obs.input.position

(* C10: multipleChoice(p1, ..., pn).parse(s) is the right-nested choice of *)
(* the list for n >= 1, and for the empty list the Failure that            *)
(* Parser.empty() returns on s: 'Empty parser' at s.position.              *)
C10_MultipleChoice ==
  obs.op = "multipleChoice" =>
    /\ obs.result = obs.folded
    /\ Len(obs.ps) = 0 =>
         obs.result = ParserError(obs.input.position, <<"Empty parser">>)

----------------------------------------------------------------------------
(* parse, one call or return at a time.  mode "eval": ctrl.p.parse(        *)
(* ctrl.input) is being entered; mode "return": ctrl is the Result a call  *)
(* just returned; stack holds, innermost last, the closures waiting on a   *)
(* `const result = ....parse(input)` with what they captured.  A call in   *)
(* return position replaces its caller.  The depth is cut at StackLimit,   *)
(* which grows with the length of the text: a parse that gets there is     *)
(* recursing without consuming input ("overflow").                         *)

StackLimit == 4 * MaxLen + 8

TermAlphabet == {"1", "a", "+"}

TermTexts == SeqsUpTo(TermAlphabet, MaxLen)

plusThen(p) == bind(char("+"), [fn |-> "sepThenP", p |-> p])

(* A parser, and the parsers it places under many/some.                    *)
TermCases ==
  <<[name |-> "many(digit)", parser |-> many(digit), repeated |-> <<digit>>],
    [name |-> "some(item)", parser |-> some(item), repeated |-> <<item>>],
    [name |-> "many(str)", parser |-> many(str(<<"a", "1">>)),
     repeated |-> <<str(<<"a", "1">>)>>],
    [name |-> "sepBy(digit, +)", parser |-> sepBy(digit, char("+")),
     repeated |-> <<plusThen(digit)>>],
    [name |-> "sepBySome(pure, +)",
     parser |-> sepBySome(pure("x"), char("+")),
     repeated |-> <<plusThen(pure("x"))>>],
    [name |-> "chainLeft(leaf, addSub)", parser |-> chainLeft(leaf, addSub),
     repeated |-> <<bind(addSub, [fn |-> "thenP", p |-> leaf])>>],
    [name |-> "token(str)", parser |-> token(str(<<"1", "a">>)),
     repeated |-> <<whitespace>>],
    [name |-> "apply(many(lower), digit)",
     parser |-> apply(many(lower),
                      fmap(digit, [fn |-> "const", v |-> [fn |-> "wrap"]])),
     repeated |-> <<lower>>],
    [name |-> "many(choice(digit, empty))",
     parser |-> many(choice(digit, empty)),
     repeated |-> <<choice(digit, empty)>>],
    [name |-> "many(pure)", parser |-> many(pure("x")),
     repeated |-> <<pure("x")>>],
    [name |-> "some(many(digit))", parser |-> some(many(digit)),
     repeated |-> <<many(digit), digit>>],
    [name |-> "many(choice(digit, pure))",
     parser |-> many(choice(digit, pure("x"))),
     repeated |-> <<choice(digit, pure("x"))>>],
    [name |-> "sepBy(pure, pure)", parser |-> sepBy(pure("x"), pure("y")),
     repeated |-> <<bind(pure("y"), [fn |-> "sepThenP", p |-> pure("x")])>>],
    [name |-> "chainLeft(pure, pure)",
     parser |-> chainLeft(pure([type |-> "number", value |-> 1]),
                          pure(makeExpression("+"))),
     repeated |-> <<bind(pure(makeExpression("+")),
                         [fn |-> "thenP",
                          p |-> pure([type |-> "number", value |-> 1])])>>],
    [name |-> "a then many(pure)",
     parser |-> bind(char("a"), [fn |-> "thenP", p |-> many(pure("x"))]),
     repeated |-> <<pure("x")>>]>>

TermInit ==
  /\ st = makeInput(<<>>)
  /\ consumed = <<>>
  /\ obs = [op |-> "makeInput"]
  /\ \E i \in 1..Len(TermCases), text \in TermTexts :
       /\ root = [name |-> TermCases[i].name, parser |-> TermCases[i].parser,
                  repeated |-> TermCases[i].repeated, text |-> text]
       /\ ctrl = [p |-> TermCases[i].parser, input |-> makeInput(text)]
  /\ mode = "eval"
  /\ stack = <<>>

Top == stack[Len(stack)]

Pop == SubSeq(stack, 1, Len(stack) - 1)

Enter(tag) == mode = "eval" /\ ctrl.p.tag = tag

Resume(tag) == mode = "return" /\ stack # <<>> /\ Top.tag = tag

(* The calls that return at once.                                          *)
CallItem ==
  /\ Enter("item")
  /\ mode' = "return"
  /\ ctrl' = item_parse(ctrl.input)
  /\ UNCHANGED <<st, consumed, obs, root, stack>>

CallPure ==
  /\ Enter("pure")
  /\ mode' = "return"
  /\ ctrl' = pure_parse(ctrl.p.a, ctrl.input)
  /\ UNCHANGED <<st, consumed, obs, root, stack>>

CallEmpty ==
  /\ Enter("empty")
  /\ mode' = "return"
  /\ ctrl' = empty_parse(ctrl.input)
  /\ UNCHANGED <<st, consumed, obs, root, stack>>

(* The calls that first parse with another parser.                         *)
CallBind ==
  /\ Enter("bind")
  /\ Len(stack) < StackLimit
  /\ stack' = Append(stack, [tag |-> "bind", f |-> ctrl.p.f,
                             input |-> ctrl.input])
  /\ ctrl' = [p |-> ctrl.p.this, input |-> ctrl.input]
  /\ UNCHANGED <<st, consumed, obs, root, mode>>

CallParseIf ==
  /\ Enter("parseIf")
  /\ Len(stack) < StackLimit
  /\ stack' = Append(stack, [tag |-> "parseIf",
                             predicate |-> ctrl.p.predicate,
                             description |-> ctrl.p.description,
                             input |-> ctrl.input])
  /\ ctrl' = [p |-> ctrl.p.this, input |-> ctrl.input]
  /\ UNCHANGED <<st, consumed, obs, root, mode>>

CallFmap ==
  /\ Enter("fmap")
  /\ Len(stack) < StackLimit
  /\ stack' = Append(stack, [tag |-> "fmap", f |-> ctrl.p.f])
  /\ ctrl' = [p |-> ctrl.p.this, input |-> ctrl.input]
  /\ UNCHANGED <<st, consumed, obs, root, mode>>

CallApply ==
  /\ Enter("apply")
  /\ Len(stack) < StackLimit
  /\ stack' = Append(stack, [tag |-> "apply", this |-> ctrl.p.this])
  /\ ctrl' = [p |-> ctrl.p.fp, input |-> ctrl.input]
  /\ UNCHANGED <<st, consumed, obs, root, mode>>

CallChoice ==
  /\ Enter("choice")
  /\ Len(stack) < StackLimit
  /\ stack' = Append(stack, [tag |-> "choice", p2 |-> ctrl.p.p2,
                             input |-> ctrl.input])
  /\ ctrl' = [p |-> ctrl.p.p1, input |-> ctrl.input]
  /\ UNCHANGED <<st, consumed, obs, root, mode>>

Overflow ==
  /\ mode = "eval"
  /\ ctrl.p.tag \in {"bind", "parseIf", "fmap", "apply", "choice"}
  /\ Len(stack) >= StackLimit
  /\ mode' = "overflow"
  /\ UNCHANGED <<st, consumed, obs, root, ctrl, stack>>

(* What each closure does with the result it was waiting on: return a      *)
(* Result, or parse again.                                                 *)
Return(result) == [mode |-> "return", ctrl |-> result]

Eval(p, input) == [mode |-> "eval", ctrl |-> [p |-> p, input |-> input]]

bind_resume_sameInput(frame, result) ==
  IF result.isError THEN Return(result)
  ELSE Eval(ApplyK(frame.f, result.value), frame.input)

bind_resume(frame, result) ==
  IF result.isError THEN Return(result)
  ELSE Eval(ApplyK(frame.f, result.value), result.state)

parseIf_resume(frame, result) ==
  IF result.isError
  THEN Return(ParserError(result.position,
         <<"Expected ", frame.description, ", but reach the end of input">>))
  ELSE IF Holds(frame.predicate, result.value) THEN Return(result)
  ELSE Return(ParserError(frame.input.position,
         <<"Expected ", frame.description, ", but got ", result.value>>))

fmap_resume(frame, result) ==
  IF result.isError THEN Return(result)
  ELSE Return(ParserResult(ApplyFn(frame.f, result.value), result.state))

apply_resume(frame, result) ==
  IF result.isError THEN Return(result)
  ELSE Eval(fmap(frame.this, result.value), result.state)

choice_resume(frame, result) ==
  IF result.isError THEN Eval(frame.p2, frame.input)
  ELSE Return(result)

ReturnBind ==
  /\ Resume("bind")
  /\ mode' = bind_resume(Top, ctrl).mode
  /\ ctrl' = bind_resume(Top, ctrl).ctrl
  /\ stack' = Pop
  /\ UNCHANGED <<st, consumed, obs, root>>

ReturnParseIf ==
  /\ Resume("parseIf")
  /\ mode' = parseIf_resume(Top, ctrl).mode
  /\ ctrl' = parseIf_resume(Top, ctrl).ctrl
  /\ stack' = Pop
  /\ UNCHANGED <<st, consumed, obs, root>>

ReturnFmap ==
  /\ Resume("fmap")
  /\ mode' = fmap_resume(Top, ctrl).mode
  /\ ctrl' = fmap_resume(Top, ctrl).ctrl
  /\ stack' = Pop
  /\ UNCHANGED <<st, consumed, obs, root>>

ReturnApply ==
  /\ Resume("apply")
  /\ mode' = apply_resume(Top, ctrl).mode
  /\ ctrl' = apply_resume(Top, ctrl).ctrl
  /\ stack' = Pop
  /\ UNCHANGED <<st, consumed, obs, root>>

ReturnChoice ==
  /\ Resume("choice")
  /\ mode' = choice_resume(Top, ctrl).mode
  /\ ctrl' = choice_resume(Top, ctrl).ctrl
  /\ stack' = Pop
  /\ UNCHANGED <<st, consumed, obs, root>>

(* The outermost parse returns to its caller.                              *)
Finish ==
  /\ mode = "return"
  /\ stack = <<>>
  /\ mode' = "done"
  /\ UNCHANGED <<st, consumed, obs, root, ctrl, stack>>

TermNext ==
  \/ CallItem
  \/ CallPure
  \/ CallEmpty
  \/ CallBind
  \/ CallParseIf
  \/ CallFmap
  \/ CallApply
  \/ CallChoice
  \/ Overflow
  \/ ReturnBind
  \/ ReturnParseIf
  \/ ReturnFmap
  \/ ReturnApply
  \/ ReturnChoice
  \/ Finish

(* Every step changes the mode or the depth of the stack.                  *)
pc == <<mode, Len(stack)>>

(* parse is synchronous code on one thread: a step that can be taken is.   *)
TermSpec == TermInit /\ [][TermNext]_vars /\ WF_pc(TermNext)

(* The states a parse of the text can be in: one per suffix.               *)
Suffixes(text) ==
  {State(Advance(Position(1, 1), SubSeq(text, 1, k)), Drop(text, k)) :
     k \in 0..Len(text)}

(* Every parser placed under many/some consumes at least one character     *)
(* whenever it succeeds.                                                   *)
Consuming ==
  \A i \in 1..Len(root.repeated) :
    \A s \in Suffixes(root.text) :
      LET r == Parse(root.repeated[i], s)
      IN IsSuccess(r) => Len(r.state.text) < Len(s.text)

(* The steps return what parse is defined to return.                       *)
StepsAgreeWithParse ==
  mode = "done" => ctrl = Parse(root.parser, makeInput(root.text))

(* C8: on every finite input parse terminates with a Success or a Failure  *)
(* (the Result parse is defined to return) whenever every parser under     *)
(* many/some, the op-then-p step of chainLeft and the sep-then-p step of   *)
(* sepBySome included, consumes a character on success; a parse that does  *)
(* not terminate is one of a parser that repeats a parser succeeding       *)
(* without consuming input.                                                *)
C8_Termination ==
  /\ (mode = "eval" /\ Consuming) ~> (mode = "done")
  /\ [](mode = "overflow" => ~Consuming)
  /\ [](mode = "done" => (IsSuccess(ctrl) \/ IsFailure(ctrl)))

(* many(digit) went round its loop twice and returned.                     *)
C8_Witness ==
  /\ mode = "done"
  /\ root.name = "many(digit)"
  /\ Consuming
  /\ IsSuccess(ctrl)
  /\ Len(ctrl.value) >= 2

(* many(pure(x)) recurses without end.                                     *)
C8_HazardReached ==
  /\ mode = "overflow"
  /\ root.name = "many(pure)"
  /\ ~Consuming

====
